---- MODULE Spec2Model ----
(***************************************************************************)
(* A model of the stack bytecode interpreter of src/src/lib.rs.            *)
(*                                                                         *)
(* The interpreter owns a number stack and a map of variables.  evaluate   *)
(* walks a flat sequence of ByteCodes; Loop pops a count and re-evaluates  *)
(* the slice up to the next EndLoop.  The recursion of evaluate_bytecodes  *)
(* and repeat is kept as an explicit stack of activations (frames), and    *)
(* every dispatch of one ByteCode is one step of the model.                *)
(***************************************************************************)
EXTENDS Integers, Sequences, FiniteSets, TLC

(***************************************************************************)
(* Bounds of the model.                                                    *)
(***************************************************************************)
\* longest sequence of ByteCodes handed to evaluate
MaxLen == 4
\* iterations of one `for _ in 0..time_number_to_repeat` the model follows
MaxIter == 3
\* longest loop body of the longer programs built around one Loop
MaxBody == 2
\* longest sequence of ByteCodes of each of two calls on one Interpreter
MaxReuseLen == 2
\* longest loop body of the programs whose termination is checked
MaxFairBody == 1

(***************************************************************************)
(* i32 arithmetic.  The operators of TLA+ are unbounded; every             *)
(* intermediate value below stays inside the i32 range.                    *)
(***************************************************************************)
MaxI32 == 2147483647
MinI32 == (-MaxI32) - 1

\* the literals a program may load and the names it may bind
Values == {MinI32, -1, 0, 1, 2, MaxI32}
Names == {"x", "y"}

\* b + a leaves the i32 range
AddOverflows(b, a) ==
    IF a > 0 THEN b > MaxI32 - a
    ELSE IF a < 0 THEN b < MinI32 - a
    ELSE FALSE

\* b + a modulo 2^32, as a signed value
wrapping_add(b, a) ==
    IF a > 0 /\ b > MaxI32 - a THEN (b + MinI32) + (a + MinI32)
    ELSE IF a < 0 /\ b < MinI32 - a THEN (b - MinI32) + (a - MinI32)
    ELSE b + a

\* b - a leaves the i32 range
SubOverflows(b, a) ==
    IF a < 0 THEN b > MaxI32 + a
    ELSE IF a > 0 THEN b < MinI32 + a
    ELSE FALSE

\* b - a modulo 2^32, as a signed value
wrapping_sub(b, a) ==
    IF a < 0 /\ b > MaxI32 + a THEN (b + MinI32) - (a - MinI32)
    ELSE IF a > 0 /\ b < MinI32 + a THEN (b - MinI32) - (a + MinI32)
    ELSE b - a

RECURSIVE MulNat(_, _)
\* b * n modulo 2^32 for n >= 0, by doubling
MulNat(b, n) ==
    IF n = 0 THEN 0
    ELSE LET h == MulNat(wrapping_add(b, b), n \div 2)
         IN  IF n % 2 = 1 THEN wrapping_add(h, b) ELSE h

\* b * a modulo 2^32, as a signed value
wrapping_mul(b, a) ==
    IF a >= 0 THEN MulNat(b, a)
    ELSE IF a = MinI32 THEN (IF b % 2 = 0 THEN 0 ELSE MinI32)
    ELSE wrapping_sub(0, MulNat(b, -a))

\* b / a of Rust (the quotient rounded towards zero), for a # 0 and
\* (b, a) # (MinI32, -1)
i32_div(b, a) ==
    LET DivPos(n, d) ==
            LET q == n \div d
                r == n % d
            IN  IF n < 0 /\ r # 0 THEN q + 1 ELSE q
    IN  IF a = MinI32 THEN (IF b = MinI32 THEN 1 ELSE 0)
        ELSE IF a > 0 THEN DivPos(b, a)
        ELSE -DivPos(b, -a)

\* b % a of Rust (the remainder has the sign of b), for a # 0 and
\* (b, a) # (MinI32, -1)
i32_rem(b, a) ==
    IF a = MinI32 THEN (IF b = MinI32 THEN 0 ELSE b)
    ELSE LET m == IF a > 0 THEN a ELSE -a
             r == b % m
         IN  IF b < 0 /\ r # 0 THEN r - m ELSE r

\* b * a leaves the i32 range
MulOverflows(b, a) ==
    IF a = 0 \/ b = 0 THEN FALSE
    ELSE IF a = -1 THEN b = MinI32
    ELSE IF b = -1 THEN a = MinI32
    ELSE i32_div(wrapping_mul(b, a), a) # b

(***************************************************************************)
(* ByteCode.                                                               *)
(***************************************************************************)
LoadVal(number) == [op |-> "LoadVal", number |-> number, variable |-> ""]
WriteVar(variable) == [op |-> "WriteVar", number |-> 0, variable |-> variable]
ReadVar(variable) == [op |-> "ReadVar", number |-> 0, variable |-> variable]
Nullary(op) == [op |-> op, number |-> 0, variable |-> ""]
Add == Nullary("Add")
Subtract == Nullary("Subtract")
Multiply == Nullary("Multiply")
Divide == Nullary("Divide")
Modulo == Nullary("Modulo")
Loop == Nullary("Loop")
EndLoop == Nullary("EndLoop")

BinaryOps == {Add, Subtract, Multiply, Divide, Modulo}

ByteCode ==
    {LoadVal(n) : n \in Values} \cup {WriteVar(v) : v \in Names}
        \cup {ReadVar(v) : v \in Names} \cup BinaryOps \cup {Loop, EndLoop}

\* the sequences of n ByteCodes a caller may hand to evaluate
Programs(n) == [1..n -> ByteCode]

(***************************************************************************)
(* The messages of the errors, and the values of Result and Option.        *)
(***************************************************************************)
EmptyResult == "Incorrectly formatted expression: no return value."
MissingValueForBinding == "Trying to bind variable without value."
UnknownVariable == "Trying to read variable that does not exist."
MissingLoopCount == "A number is required to use Loop."
UnterminatedLoop == "There is no EndLoop instruction associated to the previous Loop."
InsufficientOperands == "Incorrectly formatted expression: expecting 2 operands."

Ok(value) == [kind |-> "Ok", value |-> value, msg |-> ""]
Err(msg) == [kind |-> "Err", value |-> 0, msg |-> msg]
\* the thread panicked with the message msg: no Result is returned
Panic(msg) == [kind |-> "Panic", value |-> 0, msg |-> msg]
\* no call yet / a call is in progress
Idle == [kind |-> "Idle", value |-> 0, msg |-> ""]
Running == [kind |-> "Running", value |-> 0, msg |-> ""]

Some(number) == [some |-> TRUE, number |-> number]
None == [some |-> FALSE, number |-> 0]

(***************************************************************************)
(* usize.  `number as usize` of a negative i32 sign-extends: the value is  *)
(* 2^BITS + number, written here as the pair (wrapped, n).                 *)
(***************************************************************************)
AsUsize(number) == [wrapped |-> number < 0, n |-> number]

\* i < u, for an index i the model can count to
InRange(i, u) == IF u.wrapped THEN TRUE ELSE i < u.n

VARIABLES
    number_stack,   \* Interpreter::number_stack
    variables_map,  \* Interpreter::variables_map
    bytecodes,      \* the argument of the evaluate call
    frames,         \* the activations of evaluate_bytecodes, outermost first
    result,         \* what the evaluate call came to
    calls,          \* the evaluate calls made on this instance
    log             \* history: every ByteCode dispatched by the call, in order

vars == <<number_stack, variables_map, bytecodes, frames, result, calls, log>>


(***************************************************************************)
(* Sequence helpers (Vec::pop, slices).                                    *)
(***************************************************************************)
Front(s) == SubSeq(s, 1, Len(s) - 1)
Last(s) == s[Len(s)]
\* Vec::pop: the value removed, if any
Pop(s) == IF s = <<>> THEN None ELSE Some(Last(s))
\* Vec::pop: what is left of the vector
Popped(s) == IF s = <<>> THEN s ELSE Front(s)

(***************************************************************************)
(* Interpreter::new                                                        *)
(***************************************************************************)
Init ==
    /\ number_stack = <<>>
    /\ variables_map = [v \in {} |-> 0]
    /\ bytecodes = <<>>
    /\ frames = <<>>
    /\ result = Idle
    /\ calls = 0
    /\ log = <<>>

(***************************************************************************)
(* An activation of evaluate_bytecodes on the slice `slice`, whose first   *)
(* ByteCode is the (offset + 1)-th of the sequence given to evaluate.  An  *)
(* activation made by repeat carries repeat's locals: the count popped,    *)
(* the count as usize and the number of the current iteration.             *)
(***************************************************************************)
Activation(slice, offset, by_repeat, number) ==
    [bytecodes |-> slice, offset |-> offset, bytecode_index |-> 1,
     by_repeat |-> by_repeat, number |-> number,
     time_number_to_repeat |-> AsUsize(number), iteration |-> 0]

Top == frames[Len(frames)]
\* the ByteCode the innermost activation is about to dispatch
Current == Top.bytecodes[Top.bytecode_index]

\* evaluate_bytecodes is at a ByteCode of its slice
Fetching ==
    /\ result.kind = "Running"
    /\ frames # <<>>
    /\ Top.bytecode_index <= Len(Top.bytecodes)

\* evaluate_bytecodes has walked its whole slice and returns Ok(())
AtEnd ==
    /\ result.kind = "Running"
    /\ frames # <<>>
    /\ Top.bytecode_index > Len(Top.bytecodes)

\* the dispatch is recorded before it changes anything
Logged ==
    log' = Append(log, [pos |-> Top.offset + Top.bytecode_index,
                        last |-> Top.offset + Len(Top.bytecodes),
                        depth |-> Len(frames),
                        number_stack |-> number_stack,
                        variables_map |-> variables_map])

\* the arm returned Ok(()): the for loop of evaluate_bytecodes goes on
Continue ==
    /\ frames' = [frames EXCEPT ![Len(frames)].bytecode_index = @ + 1]
    /\ UNCHANGED result

\* Raise with a repeat that drops the Result of the body: an error inside a
\* loop ends the loop and the walk that dispatched the Loop goes on
Raise_dropped_by_repeat(msg) ==
    IF Len(frames) > 1
    THEN /\ frames' = [Front(frames) EXCEPT
                          ![Len(frames) - 1].bytecode_index = @ + 1]
         /\ UNCHANGED result
    ELSE /\ frames' = <<>>
         /\ result' = Err(msg)

\* the arm returned Err(msg): every `?` on the way up returns it, evaluate
\* included
Raise(msg) ==
    /\ frames' = <<>>
    /\ result' = Err(msg)

\* Evaluate on an interpreter whose variables are cleared by each call
Evaluate_clearing_variables(input) ==
    /\ result.kind # "Running"
    /\ bytecodes' = input
    /\ frames' = <<Activation(input, 0, FALSE, 0)>>
    /\ result' = Running
    /\ calls' = calls + 1
    /\ log' = <<>>
    /\ variables_map' = [v \in {} |-> 0]
    /\ UNCHANGED number_stack

(***************************************************************************)
(* evaluate: the call begins.                                              *)
(***************************************************************************)
Evaluate(input) ==
    /\ result.kind # "Running"
    /\ bytecodes' = input
    /\ frames' = <<Activation(input, 0, FALSE, 0)>>
    /\ result' = Running
    /\ calls' = calls + 1
    /\ log' = <<>>
    /\ UNCHANGED <<number_stack, variables_map>>

(***************************************************************************)
(* evaluate_bytecodes: the arms of the match.                              *)
(***************************************************************************)
DispatchLoadVal ==
    /\ Fetching
    /\ Current.op = "LoadVal"
    /\ number_stack' = Append(number_stack, Current.number)
    /\ Continue
    /\ Logged
    /\ UNCHANGED <<variables_map, bytecodes, calls>>

\* bind_variable that keeps the first binding of a name
bind_variable_first_wins(variable) ==
    LET rvalue == Pop(number_stack)
    IN  IF rvalue.some
        THEN /\ number_stack' = Popped(number_stack)
             /\ variables_map' = variables_map @@ (variable :> rvalue.number)
             /\ Continue
        ELSE /\ UNCHANGED <<number_stack, variables_map>>
             /\ Raise(MissingValueForBinding)

bind_variable(variable) ==
    LET rvalue == Pop(number_stack)
    IN  IF rvalue.some
        THEN /\ number_stack' = Popped(number_stack)
             /\ variables_map' = (variable :> rvalue.number) @@ variables_map
             /\ Continue
        ELSE /\ UNCHANGED <<number_stack, variables_map>>
             /\ Raise(MissingValueForBinding)

DispatchWriteVar ==
    /\ Fetching
    /\ Current.op = "WriteVar"
    /\ bind_variable(Current.variable)
    /\ Logged
    /\ UNCHANGED <<bytecodes, calls>>

\* read_variable that reads an unbound name as 0
read_variable_or_zero(variable) ==
    /\ number_stack' = Append(number_stack,
            IF variable \in DOMAIN variables_map
            THEN variables_map[variable] ELSE 0)
    /\ Continue
    /\ UNCHANGED variables_map

read_variable(variable) ==
    IF variable \in DOMAIN variables_map
    THEN /\ number_stack' = Append(number_stack, variables_map[variable])
         /\ Continue
         /\ UNCHANGED variables_map
    ELSE /\ UNCHANGED <<number_stack, variables_map>>
         /\ Raise(UnknownVariable)

DispatchReadVar ==
    /\ Fetching
    /\ Current.op = "ReadVar"
    /\ read_variable(Current.variable)
    /\ Logged
    /\ UNCHANGED <<bytecodes, calls>>

DispatchEndLoop ==
    /\ Fetching
    /\ Current.op = "EndLoop"
    /\ Continue
    /\ Logged
    /\ UNCHANGED <<number_stack, variables_map, bytecodes, calls>>


(***************************************************************************)
(* Loop: repeat and next_endloop_bytecode.                                 *)
(***************************************************************************)
\* next_endloop_bytecode that takes the end of the slice for the EndLoop
\* when there is none
next_endloop_bytecode_or_end(slice) ==
    LET endloop_bytecodes == {i \in 1..Len(slice) : slice[i] = EndLoop}
    IN  IF endloop_bytecodes = {}
        THEN [ok |-> TRUE, index |-> Len(slice), msg |-> ""]
        ELSE [ok |-> TRUE, msg |-> "",
              index |-> (CHOOSE i \in endloop_bytecodes :
                            \A j \in endloop_bytecodes : i <= j) - 1]

\* the index (from 0, as in the slice given) of the first EndLoop
next_endloop_bytecode(slice) ==
    LET endloop_bytecodes == {i \in 1..Len(slice) : slice[i] = EndLoop}
    IN  IF endloop_bytecodes = {}
        THEN [ok |-> FALSE, index |-> 0, msg |-> UnterminatedLoop]
        ELSE [ok |-> TRUE, msg |-> "",
              index |-> (CHOOSE i \in endloop_bytecodes :
                            \A j \in endloop_bytecodes : i <= j) - 1]

\* repeat whose body begins at the Loop itself
repeat_from_loop(inputs, bytecode_index) ==
    LET found == next_endloop_bytecode(
                     SubSeq(inputs, bytecode_index, Len(inputs)))
        number == Pop(number_stack)
        body == SubSeq(inputs, bytecode_index,
                       bytecode_index + found.index - 1)
    IN  IF ~found.ok
        THEN /\ UNCHANGED number_stack
             /\ Raise(found.msg)
        ELSE IF ~number.some
        THEN /\ UNCHANGED number_stack
             /\ Raise(MissingLoopCount)
        ELSE /\ number_stack' = Popped(number_stack)
             /\ IF InRange(0, AsUsize(number.number))
                THEN /\ frames' = Append(frames,
                            Activation(body, Top.offset + bytecode_index - 1,
                                       TRUE, number.number))
                     /\ UNCHANGED result
                ELSE Continue

\* `inputs` is the slice being walked and bytecode_index (from 1) the place
\* of the Loop in it.  The scan for the EndLoop comes before the pop.
repeat(inputs, bytecode_index) ==
    LET found == next_endloop_bytecode(
                     SubSeq(inputs, bytecode_index, Len(inputs)))
        number == Pop(number_stack)
        body == SubSeq(inputs, bytecode_index + 1,
                       bytecode_index + found.index - 1)
    IN  IF ~found.ok
        THEN /\ UNCHANGED number_stack
             /\ Raise(found.msg)
        ELSE IF ~number.some
        THEN /\ UNCHANGED number_stack
             /\ Raise(MissingLoopCount)
        ELSE /\ number_stack' = Popped(number_stack)
             /\ IF InRange(0, AsUsize(number.number))
                THEN /\ frames' = Append(frames,
                            Activation(body, Top.offset + bytecode_index,
                                       TRUE, number.number))
                     /\ UNCHANGED result
                ELSE Continue

\* Loop that reports a missing count as a missing EndLoop
DispatchLoop_missing_count_as_unterminated ==
    /\ Fetching
    /\ Current.op = "Loop"
    /\ IF number_stack = <<>>
       THEN /\ UNCHANGED number_stack
            /\ Raise(UnterminatedLoop)
       ELSE repeat(Top.bytecodes, Top.bytecode_index)
    /\ Logged
    /\ UNCHANGED <<variables_map, bytecodes, calls>>

DispatchLoop ==
    /\ Fetching
    /\ Current.op = "Loop"
    /\ repeat(Top.bytecodes, Top.bytecode_index)
    /\ Logged
    /\ UNCHANGED <<variables_map, bytecodes, calls>>

\* the body returned Ok(()) and the range 0..time_number_to_repeat has a
\* next value: the body is evaluated again
RepeatNext ==
    /\ AtEnd
    /\ Top.by_repeat
    /\ InRange(Top.iteration + 1, Top.time_number_to_repeat)
    /\ Top.iteration + 1 < MaxIter
    /\ frames' = [frames EXCEPT ![Len(frames)].iteration = @ + 1,
                                ![Len(frames)].bytecode_index = 1]
    /\ UNCHANGED <<number_stack, variables_map, bytecodes, result, calls, log>>

\* the range is exhausted: repeat returns Ok(()) and the walk that
\* dispatched the Loop goes on with the ByteCode after the Loop
RepeatDone ==
    /\ AtEnd
    /\ Top.by_repeat
    /\ ~InRange(Top.iteration + 1, Top.time_number_to_repeat)
    /\ frames' = [Front(frames) EXCEPT ![Len(frames) - 1].bytecode_index = @ + 1]
    /\ UNCHANGED <<number_stack, variables_map, bytecodes, result, calls, log>>

(***************************************************************************)
(* The binary operators.                                                   *)
(***************************************************************************)
\* The outcomes the build can produce for `b <op> a`.  An overflow of +, -
\* or * panics when overflow checks are compiled in and wraps otherwise; a
\* zero divisor and MinI32 / -1 panic in every build.
binary_outcomes(op, b, a) ==
    CASE op = "Add" ->
            IF AddOverflows(b, a)
            THEN {Panic("attempt to add with overflow"),
                  Ok(wrapping_add(b, a))} ELSE {Ok(b + a)}
      [] op = "Subtract" ->
            IF SubOverflows(b, a)
            THEN {Panic("attempt to subtract with overflow"),
                  Ok(wrapping_sub(b, a))} ELSE {Ok(b - a)}
      [] op = "Multiply" ->
            IF MulOverflows(b, a)
            THEN {Panic("attempt to multiply with overflow"),
                  Ok(wrapping_mul(b, a))} ELSE {Ok(b * a)}
      [] op = "Divide" ->
            IF a = 0 THEN {Panic("attempt to divide by zero")}
            ELSE IF b = MinI32 /\ a = -1
            THEN {Panic("attempt to divide with overflow")}
            ELSE {Ok(i32_div(b, a))}
      [] op = "Modulo" ->
            IF a = 0
            THEN {Panic("attempt to calculate the remainder with a divisor of zero")}
            ELSE IF b = MinI32 /\ a = -1
            THEN {Panic("attempt to calculate the remainder with overflow")}
            ELSE {Ok(i32_rem(b, a))}

\* perform_binary_operation with the operands taken in the order of the
\* pops: a <op> b
perform_binary_operation_swapped(bytecode, first_operand, second_operand) ==
    IF ~first_operand.some \/ ~second_operand.some
    THEN {Err(InsufficientOperands)}
    ELSE binary_outcomes(bytecode.op, first_operand.number,
                         second_operand.number)

\* first_operand is a, the top of the stack; second_operand is b
perform_binary_operation(bytecode, first_operand, second_operand) ==
    IF ~first_operand.some \/ ~second_operand.some
    THEN {Err(InsufficientOperands)}
    ELSE binary_outcomes(bytecode.op, second_operand.number,
                         first_operand.number)

\* binary_calculus that leaves the second operand under its result
binary_calculus_keeping_second(bytecode) ==
    LET first_operand == Pop(number_stack)
        second_operand == Pop(Popped(number_stack))
        rest == Popped(number_stack)
    IN  \E r \in perform_binary_operation(bytecode, first_operand,
                                          second_operand) :
            IF r.kind = "Ok"
            THEN /\ number_stack' = Append(rest, r.value)
                 /\ Continue
            ELSE IF r.kind = "Err"
            THEN /\ number_stack' = rest
                 /\ Raise(r.msg)
            ELSE /\ number_stack' = rest
                 /\ frames' = <<>>
                 /\ result' = r

\* both pops are made before the operands are looked at
binary_calculus(bytecode) ==
    LET first_operand == Pop(number_stack)
        second_operand == Pop(Popped(number_stack))
        rest == Popped(Popped(number_stack))
    IN  \E r \in perform_binary_operation(bytecode, first_operand,
                                          second_operand) :
            IF r.kind = "Ok"
            THEN /\ number_stack' = Append(rest, r.value)
                 /\ Continue
            ELSE IF r.kind = "Err"
            THEN /\ number_stack' = rest
                 /\ Raise(r.msg)
            ELSE /\ number_stack' = rest
                 /\ frames' = <<>>
                 /\ result' = r

DispatchBinary ==
    /\ Fetching
    /\ Current \in BinaryOps
    /\ binary_calculus(Current)
    /\ Logged
    /\ UNCHANGED <<variables_map, bytecodes, calls>>

\* Return that reads the top of the stack and leaves it there
Return_keeping_top ==
    /\ AtEnd
    /\ ~Top.by_repeat
    /\ LET number == Pop(number_stack)
       IN  result' = IF number.some THEN Ok(number.number)
                     ELSE Err(EmptyResult)
    /\ frames' = <<>>
    /\ UNCHANGED <<number_stack, variables_map, bytecodes, calls, log>>

(***************************************************************************)
(* evaluate: evaluate_bytecodes returned Ok(()); the result is popped.     *)
(***************************************************************************)
Return ==
    /\ AtEnd
    /\ ~Top.by_repeat
    /\ LET number == Pop(number_stack)
       IN  result' = IF number.some THEN Ok(number.number)
                     ELSE Err(EmptyResult)
    /\ number_stack' = Popped(number_stack)
    /\ frames' = <<>>
    /\ UNCHANGED <<variables_map, bytecodes, calls, log>>

(***************************************************************************)
(* One evaluate call on a new Interpreter: on any sequence of at most      *)
(* MaxLen ByteCodes, or on a longer one that loads a value and a count and *)
(* loops over a body of at most MaxBody ByteCodes.                         *)
(***************************************************************************)
FirstCall ==
    /\ calls = 0
    /\ \E n \in 0..MaxLen : \E input \in Programs(n) : Evaluate(input)

LoopCall ==
    /\ calls = 0
    /\ \E v \in Values, k \in Values, n \in 1..MaxBody :
          \E body \in Programs(n) :
             Evaluate(<<LoadVal(v), LoadVal(k), Loop>> \o body \o <<EndLoop>>)

\* the shape of the programs that bind twice and read: two names may be
\* the same or not
BindingCall ==
    /\ calls = 0
    /\ \E a \in Values, b \in Values :
          \E first \in Names, second \in Names, read \in Names :
             Evaluate(<<LoadVal(a), WriteVar(first), LoadVal(b),
                        WriteVar(second), ReadVar(read)>>)

\* the program of the test simple_while_loop, for a count and an increment
WhileProgram(count, increment) ==
    <<LoadVal(0), WriteVar("x"), LoadVal(count), Loop, ReadVar("x"),
      LoadVal(increment), Add, WriteVar("x"), EndLoop, ReadVar("x")>>

WhileCall ==
    /\ calls = 0
    /\ \E count \in 0..MaxIter, increment \in Values :
          Evaluate(WhileProgram(count, increment))

Next ==
    \/ FirstCall
    \/ LoopCall
    \/ BindingCall
    \/ WhileCall
    \/ DispatchLoadVal
    \/ DispatchWriteVar
    \/ DispatchReadVar
    \/ DispatchLoop
    \/ DispatchEndLoop
    \/ DispatchBinary
    \/ RepeatNext
    \/ RepeatDone
    \/ Return

Spec == Init /\ [][Next]_vars

(***************************************************************************)
(* One evaluate call on a new Interpreter, on a program that loads a count *)
(* and loops over a body of at most MaxFairBody ByteCodes (or of none), or *)
(* on the program of simple_while_loop.  evaluate runs on the caller's     *)
(* thread with nothing to wait for: a step that can be taken is taken.     *)
(***************************************************************************)
CountedLoopCall ==
    /\ calls = 0
    /\ \E k \in Values, n \in 0..MaxFairBody :
          \E body \in Programs(n) :
             Evaluate(<<LoadVal(k), Loop>> \o body \o <<EndLoop>>)

NextFair ==
    \/ CountedLoopCall
    \/ WhileCall
    \/ DispatchLoadVal
    \/ DispatchWriteVar
    \/ DispatchReadVar
    \/ DispatchLoop
    \/ DispatchEndLoop
    \/ DispatchBinary
    \/ RepeatNext
    \/ RepeatDone
    \/ Return

SpecFair == Init /\ [][NextFair]_vars /\ WF_vars(NextFair)

(***************************************************************************)
(* Two evaluate calls, one after the other, on the same Interpreter, each  *)
(* on any sequence of at most MaxReuseLen ByteCodes.  The second call      *)
(* begins once the first has returned its Result.                          *)
(***************************************************************************)
ReuseCall ==
    /\ calls \in {0, 1}
    /\ result.kind \in {"Idle", "Ok", "Err"}
    /\ \E n \in 0..MaxReuseLen : \E input \in Programs(n) : Evaluate(input)

NextReuse ==
    \/ ReuseCall
    \/ DispatchLoadVal
    \/ DispatchWriteVar
    \/ DispatchReadVar
    \/ DispatchLoop
    \/ DispatchEndLoop
    \/ DispatchBinary
    \/ RepeatNext
    \/ RepeatDone
    \/ Return

SpecReuse == Init /\ [][NextReuse]_vars


(***************************************************************************)
(* Reading the history.                                                    *)
(***************************************************************************)
\* the ByteCode dispatched by the i-th entry of the log
Dispatched(i) == bytecodes[log[i].pos]

\* how many times the ByteCode at position q was dispatched
ExecCount(q) == Cardinality({i \in 1..Len(log) : log[i].pos = q})

\* the positions of the EndLoops after entry e in the slice it was walked in
EndLoopsAfter(e) == {q \in (e.pos + 1)..e.last : bytecodes[q] = EndLoop}

\* the first of them
FirstEndLoopAfter(e) ==
    CHOOSE q \in EndLoopsAfter(e) : \A r \in EndLoopsAfter(e) : q <= r

\* entry i is a Loop that found its EndLoop and popped its count
LoopRan(i) ==
    /\ Dispatched(i) = Loop
    /\ EndLoopsAfter(log[i]) # {}
    /\ log[i].number_stack # <<>>

\* the count entry i popped
CountOf(i) == Last(log[i].number_stack)

\* the call returned and no ByteCode failed
Completed == result.kind = "Ok" \/ result = Err(EmptyResult)

\* the call returned the error of a ByteCode
InstructionFailed == result.kind = "Err" /\ result.msg # EmptyResult

(***************************************************************************)
(* C1.  A Loop that pops the count k >= 0 and has an EndLoop after it has  *)
(* the ByteCodes between the two executed exactly k times in the call.     *)
(* Stated for a Loop that is dispatched once, in a call that ran to its    *)
(* end.  The code executes them k + 1 times: k times by repeat and once    *)
(* more by the walk that dispatched the Loop, which goes on with the       *)
(* ByteCode after the Loop.                                                *)
(***************************************************************************)
C1_BodyRunsCountTimes ==
    Completed =>
        \A i \in 1..Len(log) :
            (LoopRan(i) /\ ExecCount(log[i].pos) = 1 /\ CountOf(i) >= 0) =>
                \A q \in (log[i].pos + 1)..(FirstEndLoopAfter(log[i]) - 1) :
                    ExecCount(q) = CountOf(i)

(***************************************************************************)
(* C2.  A Loop that pops the count 0 executes nothing of its body: when    *)
(* the walk that dispatched it has passed the EndLoop, the stack and the   *)
(* variables are those left by the pop, and no error of a ByteCode of the  *)
(* body is returned.                                                       *)
(***************************************************************************)
C2_ZeroCountSkipsBody ==
    \A i \in 1..Len(log) :
        (LoopRan(i) /\ ExecCount(log[i].pos) = 1 /\ CountOf(i) = 0) =>
            LET end == FirstEndLoopAfter(log[i])
            IN  /\ ( /\ result.kind = "Running"
                     /\ Len(frames) = log[i].depth
                     /\ Top.offset + Top.bytecode_index = end + 1 )
                   => /\ number_stack = Popped(log[i].number_stack)
                      /\ variables_map = log[i].variables_map
                /\ InstructionFailed =>
                      ~(log[i].pos < Last(log).pos /\ Last(log).pos < end)

(***************************************************************************)
(* C3.  A Loop that pops a negative count performs no iteration: the count *)
(* repeat uses is 0, so no activation of the body exists for it.           *)
(***************************************************************************)
C3_NegativeCountNoIteration ==
    \A d \in 1..Len(frames) :
        (frames[d].by_repeat /\ frames[d].number < 0) =>
            /\ ~frames[d].time_number_to_repeat.wrapped
            /\ frames[d].time_number_to_repeat.n = 0

(***************************************************************************)
(* C4.  An evaluate call ends in Ok(integer) or in one of the six errors,  *)
(* never in a fault of the process.                                        *)
(***************************************************************************)
C4_NoFatalFault ==
    /\ result.kind \in {"Idle", "Running", "Ok", "Err"}
    /\ result.kind = "Err" =>
          result.msg \in {EmptyResult, MissingValueForBinding, UnknownVariable,
                          MissingLoopCount, UnterminatedLoop,
                          InsufficientOperands}

(***************************************************************************)
(* C5.  A Loop dispatched on an empty stack fails with MissingLoopCount,   *)
(* whatever follows it.                                                    *)
(***************************************************************************)
C5_EmptyStackLoopMissingCount ==
    \A i \in 1..Len(log) :
        (Dispatched(i) = Loop /\ log[i].number_stack = <<>>) =>
            result = Err(MissingLoopCount)

(***************************************************************************)
(* C7.  When a ByteCode fails, the stack and the variables are left as     *)
(* they were just before it was dispatched.                                *)
(***************************************************************************)
C7_FailureLeavesState ==
    InstructionFailed =>
        /\ number_stack = Last(log).number_stack
        /\ variables_map = Last(log).variables_map


(***************************************************************************)
(* C6.  A Loop dispatched with no EndLoop after it in the slice being      *)
(* walked fails with UnterminatedLoop, it is the last ByteCode dispatched  *)
(* by the call, and it changes neither the stack nor the variables; an     *)
(* EndLoop before the Loop does not count.                                 *)
(***************************************************************************)
C6_UnterminatedLoopFails ==
    \A i \in 1..Len(log) :
        (Dispatched(i) = Loop /\ EndLoopsAfter(log[i]) = {}) =>
            /\ i = Len(log)
            /\ result = Err(UnterminatedLoop)
            /\ frames = <<>>
            /\ number_stack = log[i].number_stack
            /\ variables_map = log[i].variables_map

\* a Loop with an EndLoop before it, none after it and ByteCodes after it
\* has failed
C6_Witness ==
    \E i \in 1..Len(log) :
        /\ Dispatched(i) = Loop
        /\ EndLoopsAfter(log[i]) = {}
        /\ \E q \in 1..(log[i].pos - 1) : bytecodes[q] = EndLoop
        /\ log[i].pos < Len(bytecodes)
        /\ result = Err(UnterminatedLoop)

(***************************************************************************)
(* C8.  The error evaluate returns is the error of the first ByteCode, in  *)
(* the order of execution, whose precondition fails: that ByteCode is the  *)
(* last one dispatched at any depth, no activation is left, and no result  *)
(* is popped.  Conversely an error of a ByteCode is returned only when the *)
(* last ByteCode dispatched failed.                                        *)
(***************************************************************************)
\* the precondition of the ByteCode of entry i did not hold
Fails(i) ==
    LET e == log[i]
        bc == Dispatched(i)
    IN  CASE bc.op = "WriteVar" -> e.number_stack = <<>>
          [] bc.op = "ReadVar" -> bc.variable \notin DOMAIN e.variables_map
          [] bc.op = "Loop" -> EndLoopsAfter(e) = {} \/ e.number_stack = <<>>
          [] bc \in BinaryOps -> Len(e.number_stack) < 2
          [] OTHER -> FALSE

\* the errors of the preconditions of entry i that did not hold
ErrorsOf(i) ==
    LET e == log[i]
        bc == Dispatched(i)
    IN  CASE bc.op = "WriteVar" -> {MissingValueForBinding}
          [] bc.op = "ReadVar" -> {UnknownVariable}
          [] bc.op = "Loop" ->
                (IF EndLoopsAfter(e) = {} THEN {UnterminatedLoop} ELSE {})
                \cup (IF e.number_stack = <<>> THEN {MissingLoopCount} ELSE {})
          [] bc \in BinaryOps -> {InsufficientOperands}
          [] OTHER -> {}

C8_FirstErrorAborts ==
    /\ \A i \in 1..Len(log) :
          Fails(i) =>
            /\ i = Len(log)
            /\ result.kind = "Err"
            /\ result.msg \in ErrorsOf(i)
            /\ frames = <<>>
            /\ Dispatched(i) \notin BinaryOps =>
                  number_stack = log[i].number_stack
    /\ InstructionFailed => (log # <<>> /\ Fails(Len(log)))

\* a ByteCode of a loop body failed in an iteration after the first, and
\* the EndLoop after it was never reached
C8_Witness ==
    /\ InstructionFailed
    /\ Fails(Len(log))
    /\ Last(log).depth >= 2
    /\ ExecCount(Last(log).pos) >= 2
    /\ bytecodes[Len(bytecodes)] = EndLoop
    /\ ExecCount(Len(bytecodes)) = 0


(***************************************************************************)
(* C9.  A binary operator dispatched on a stack ... b, a (a on top)        *)
(* replaces the two by b <op> a and leaves the rest of the stack, the      *)
(* variables and the call as they are, whenever b <op> a is defined in     *)
(* i32; and a program of LoadVals and binary operators returns the value   *)
(* of its postfix expression.                                              *)
(***************************************************************************)
\* the quotient of b by a rounded towards zero, by floors and ceilings
Quotient(b, a) ==
    LET Q(n, d) == IF n >= 0 THEN n \div d ELSE (n + d - 1) \div d
    IN  IF a = MinI32 THEN (IF b = MinI32 THEN 1 ELSE 0)
        ELSE IF a > 0 THEN Q(b, a)
        ELSE -Q(b, -a)

\* b <op> a is an i32: no result out of range and no zero divisor
Defined(op, b, a) ==
    CASE op = "Add" -> ~AddOverflows(b, a)
      [] op = "Subtract" -> ~SubOverflows(b, a)
      [] op = "Multiply" -> ~MulOverflows(b, a)
      [] OTHER -> a # 0 /\ ~(b = MinI32 /\ a = -1)

\* b <op> a in integer arithmetic, where it is defined
ValueOf(op, b, a) ==
    CASE op = "Add" -> b + a
      [] op = "Subtract" -> b - a
      [] op = "Multiply" -> b * a
      [] op = "Divide" -> Quotient(b, a)
      [] op = "Modulo" -> b - (a * Quotient(b, a))

C9_BinaryStep ==
    (Fetching /\ Current \in BinaryOps /\ Len(number_stack) >= 2) =>
        LET n == Len(number_stack)
            a == number_stack[n]
            b == number_stack[n - 1]
        IN  Defined(Current.op, b, a) =>
              /\ number_stack' =
                    Append(SubSeq(number_stack, 1, n - 2),
                           ValueOf(Current.op, b, a))
              /\ variables_map' = variables_map
              /\ result' = Running

\* the program is made of LoadVals of small literals and binary operators
StraightLine(prog) ==
    \A i \in 1..Len(prog) :
        \/ prog[i] \in BinaryOps
        \/ prog[i].op = "LoadVal" /\ prog[i].number \in -2..2

RECURSIVE Postfix(_)
\* the stack of the postfix expression prog, and whether every operator of
\* it had two operands and a result
Postfix(prog) ==
    IF prog = <<>> THEN [defined |-> TRUE, stack |-> <<>>]
    ELSE LET before == Postfix(Front(prog))
             bc == Last(prog)
             n == Len(before.stack)
         IN  IF ~before.defined THEN before
             ELSE IF bc.op = "LoadVal"
             THEN [defined |-> TRUE, stack |-> Append(before.stack, bc.number)]
             ELSE IF n < 2 \/ ~Defined(bc.op, before.stack[n - 1], before.stack[n])
             THEN [defined |-> FALSE, stack |-> <<>>]
             ELSE [defined |-> TRUE,
                   stack |-> Append(SubSeq(before.stack, 1, n - 2),
                                    ValueOf(bc.op, before.stack[n - 1],
                                            before.stack[n]))]

C9_PostfixValue ==
    (result.kind \in {"Ok", "Err", "Panic"} /\ StraightLine(bytecodes)) =>
        LET expression == Postfix(bytecodes)
        IN  (expression.defined /\ expression.stack # <<>>) =>
                result = Ok(Last(expression.stack))

C9_BinaryOperators == [][C9_BinaryStep]_vars /\ []C9_PostfixValue

\* 2 - (-1) was computed as 3, over a value that stayed on the stack
C9_Witness ==
    /\ log # <<>>
    /\ Dispatched(Len(log)) = Subtract
    /\ Len(Last(log).number_stack) = 3
    /\ Last(Last(log).number_stack) = -1
    /\ Last(Front(Last(log).number_stack)) = 2
    /\ result = Ok(3)

(***************************************************************************)
(* C10.  MissingValueForBinding is returned exactly at a WriteVar          *)
(* dispatched on an empty stack, UnknownVariable exactly at a ReadVar of   *)
(* an unbound name, InsufficientOperands exactly at a binary operator      *)
(* dispatched on fewer than two values; a WriteVar on a non-empty stack, a *)
(* ReadVar of a bound name and a binary operator on two values with a      *)
(* defined result do not fail.                                             *)
(***************************************************************************)
\* entry i is a WriteVar on an empty stack
WriteVarOnEmpty(i) ==
    Dispatched(i).op = "WriteVar" /\ log[i].number_stack = <<>>

\* entry i is a ReadVar of a name that has no binding
ReadVarUnbound(i) ==
    /\ Dispatched(i).op = "ReadVar"
    /\ Dispatched(i).variable \notin DOMAIN log[i].variables_map

\* entry i is a binary operator on fewer than two values
BinaryOnFewer(i) ==
    Dispatched(i) \in BinaryOps /\ Len(log[i].number_stack) < 2

\* entry i is a WriteVar, a ReadVar or a binary operator whose precondition
\* holds
Served(i) ==
    LET e == log[i]
        bc == Dispatched(i)
        n == Len(e.number_stack)
    IN  CASE bc.op = "WriteVar" -> n >= 1
          [] bc.op = "ReadVar" -> bc.variable \in DOMAIN e.variables_map
          [] bc \in BinaryOps ->
                n >= 2 /\ Defined(bc.op, e.number_stack[n - 1], e.number_stack[n])
          [] OTHER -> FALSE

C10_ErrorsExactlyAt ==
    /\ \A i \in 1..Len(log) :
          /\ WriteVarOnEmpty(i) =>
                (i = Len(log) /\ result = Err(MissingValueForBinding))
          /\ ReadVarUnbound(i) =>
                (i = Len(log) /\ result = Err(UnknownVariable))
          /\ BinaryOnFewer(i) =>
                (i = Len(log) /\ result = Err(InsufficientOperands))
    /\ result = Err(MissingValueForBinding) =>
          (log # <<>> /\ WriteVarOnEmpty(Len(log)))
    /\ result = Err(UnknownVariable) =>
          (log # <<>> /\ ReadVarUnbound(Len(log)))
    /\ result = Err(InsufficientOperands) =>
          (log # <<>> /\ BinaryOnFewer(Len(log)))
    /\ (log # <<>> /\ Served(Len(log))) =>
          (result.kind \in {"Running", "Ok"} \/ result = Err(EmptyResult))

\* a ReadVar of an unbound name failed although another name was bound, in
\* a call in which a WriteVar, a ReadVar and a binary operator were served
C10_Witness ==
    /\ result = Err(UnknownVariable)
    /\ DOMAIN variables_map # {}
    /\ \E i \in 1..Len(log) : Served(i) /\ Dispatched(i).op = "WriteVar"


(***************************************************************************)
(* C11.  On a new interpreter a ReadVar of a name pushes the value popped  *)
(* by the most recent WriteVar of that name that was served, wherever it   *)
(* was dispatched (in a loop body, in an earlier iteration); a WriteVar    *)
(* binds its name to the value it pops and leaves the bindings of the      *)
(* other names as they are.                                                *)
(***************************************************************************)
\* the entries of the log that bound `name`
WritesOf(name) ==
    {j \in 1..Len(log) :
        Dispatched(j) = WriteVar(name) /\ log[j].number_stack # <<>>}

\* the most recent of them
LastWriteOf(name) ==
    CHOOSE j \in WritesOf(name) : \A k \in WritesOf(name) : k <= j

C11_Step ==
    /\ (Fetching /\ Current.op = "ReadVar"
            /\ WritesOf(Current.variable) # {}) =>
          /\ number_stack' =
                Append(number_stack,
                       Last(log[LastWriteOf(Current.variable)].number_stack))
          /\ result' = Running
    /\ (Fetching /\ Current.op = "WriteVar" /\ number_stack # <<>>) =>
          /\ DOMAIN variables_map' =
                DOMAIN variables_map \cup {Current.variable}
          /\ variables_map'[Current.variable] = Last(number_stack)
          /\ \A other \in DOMAIN variables_map \ {Current.variable} :
                variables_map'[other] = variables_map[other]

C11_LastWriteWins == [][C11_Step]_vars

\* a name bound twice to different values was read and the second value
\* pushed
C11_Witness ==
    /\ log # <<>>
    /\ result.kind = "Running"
    /\ Dispatched(Len(log)).op = "ReadVar"
    /\ LET name == Dispatched(Len(log)).variable
       IN  /\ Cardinality(WritesOf(name)) = 2
           /\ \E j \in WritesOf(name) :
                 Last(log[j].number_stack)
                    # Last(log[LastWriteOf(name)].number_stack)
           /\ number_stack =
                 <<Last(log[LastWriteOf(name)].number_stack)>>


(***************************************************************************)
(* C12.  Evaluating an empty sequence fails with EmptyResult, and          *)
(* EmptyResult is returned only when no ByteCode failed and the stack is   *)
(* empty after the last one.  Checked over two calls on one interpreter:   *)
(* the stack is not cleared between calls (C15), so an empty sequence can  *)
(* return a value left by the call before.                                 *)
(***************************************************************************)
C12_EmptyResultExactly ==
    /\ (result.kind \in {"Ok", "Err", "Panic"} /\ bytecodes = <<>>) =>
          result = Err(EmptyResult)
    /\ result = Err(EmptyResult) =>
          /\ number_stack = <<>>
          /\ log # <<>> => ~Fails(Len(log))

(***************************************************************************)
(* C13.  When evaluate_bytecodes has returned Ok(()) and the stack is not  *)
(* empty, evaluate returns the top of the stack and removes that value     *)
(* only: the values under it and the variables stay.                       *)
(***************************************************************************)
C13_Step ==
    (AtEnd /\ ~Top.by_repeat /\ number_stack # <<>>) =>
        /\ result' = Ok(Last(number_stack))
        /\ number_stack' = Front(number_stack)
        /\ variables_map' = variables_map

C13_ReturnsTop == [][C13_Step]_vars

\* a value was returned, another one stays on the stack and a variable is
\* bound
C13_Witness ==
    /\ result.kind = "Ok"
    /\ number_stack # <<>>
    /\ DOMAIN variables_map # {}
    /\ result.value # Last(number_stack)

(***************************************************************************)
(* C14.  The variables in place when a call returned Ok or an error are    *)
(* in place when the next call on the same interpreter begins: a ReadVar   *)
(* of the second call, of a name the second call has not written, pushes   *)
(* the value the first call left for it.                                   *)
(***************************************************************************)
\* the variables and the stack when the current call began
VariablesAtStart ==
    IF log = <<>> THEN variables_map ELSE log[1].variables_map

C14_Step ==
    /\ (result.kind \in {"Ok", "Err"} /\ result'.kind = "Running") =>
          variables_map' = variables_map
    /\ (calls = 2 /\ Fetching /\ Current.op = "ReadVar"
            /\ WritesOf(Current.variable) = {}
            /\ Current.variable \in DOMAIN VariablesAtStart) =>
          /\ number_stack' =
                Append(number_stack, VariablesAtStart[Current.variable])
          /\ result' = Running

C15_StackEmptyAtStart ==
    /\ log # <<>> => log[1].number_stack = <<>>
    /\ (result.kind = "Running" /\ log = <<>> /\ Len(frames) = 1
            /\ Top.bytecode_index = 1) => number_stack = <<>>

(***************************************************************************)
(* C16.  On a new interpreter the program of simple_while_loop with count  *)
(* k >= 0 and increment c returns Ok((k + 1) * c).  The product is stated  *)
(* by division, so that it is never computed beyond 32 bits.               *)
(***************************************************************************)
C16_WhileLoopValue ==
    \A count \in 0..MaxIter, increment \in Values :
        (bytecodes = WhileProgram(count, increment)
            /\ result.kind \in {"Ok", "Err", "Panic"}) =>
           /\ result.kind = "Ok"
           /\ result.value % (count + 1) = 0
           /\ result.value \div (count + 1) = increment

\* the same, for the counts and increments whose sums all fit in 32 bits
C16_WithoutOverflow ==
    \A count \in 0..MaxIter, increment \in Values :
        (bytecodes = WhileProgram(count, increment)
            /\ result.kind \in {"Ok", "Err", "Panic"}
            /\ increment <= MaxI32 \div (count + 1)
            /\ increment >= MinI32 \div (count + 1) + 1) =>
           /\ result.kind = "Ok"
           /\ result.value % (count + 1) = 0
           /\ result.value \div (count + 1) = increment

(***************************************************************************)
(* C17.  Every evaluate call ends.  Each activation made by a Loop walks   *)
(* the ByteCodes from the one after the Loop up to, not including, the     *)
(* first EndLoop after it, a sequence shorter than the one its caller      *)
(* walks, so there are at most as many nested activations as ByteCodes;    *)
(* a loop with nothing between Loop and EndLoop walks the empty sequence.  *)
(* The model follows MaxIter iterations of a loop: a call is followed to   *)
(* its end or to the MaxIter-th iteration of a loop with a larger count.   *)
(***************************************************************************)
\* the model stops here: the loop has more iterations than it follows
Capped ==
    /\ AtEnd
    /\ Top.by_repeat
    /\ InRange(Top.iteration + 1, Top.time_number_to_repeat)
    /\ Top.iteration + 1 >= MaxIter

C17_Shorter ==
    \A i \in 2..Len(frames) :
        LET caller == frames[i - 1]
            loop == caller.bytecode_index
            ends == {e \in (loop + 1)..Len(caller.bytecodes) :
                        caller.bytecodes[e] = EndLoop}
        IN  /\ frames[i].by_repeat
            /\ loop <= Len(caller.bytecodes)
            /\ caller.bytecodes[loop] = Loop
            /\ ends # {}
            /\ \E e \in ends :
                  /\ \A r \in ends : e <= r
                  /\ frames[i].bytecodes =
                        SubSeq(caller.bytecodes, loop + 1, e - 1)
            /\ Len(frames[i].bytecodes) < Len(caller.bytecodes)

C17_Depth ==
    /\ Len(frames) <= Len(bytecodes) + 1
    /\ Capped => InRange(MaxIter, Top.time_number_to_repeat)

C17_Ends ==
    (result.kind = "Running") ~> (result.kind \in {"Ok", "Err", "Panic"} \/ Capped)

C18_LoopWithoutEndLoop ==
    result = Err(UnterminatedLoop) =>
        \E i \in 1..Len(bytecodes) :
            /\ bytecodes[i] = Loop
            /\ \A j \in (i + 1)..Len(bytecodes) : bytecodes[j] # EndLoop

(***************************************************************************)
(* C18, amended.  If evaluate returns UnterminatedLoop, the last ByteCode  *)
(* dispatched is a Loop with no EndLoop after it in the sequence being     *)
(* walked: the whole sequence for a Loop of the outermost walk, and        *)
(* otherwise the body of the enclosing loop, which ends before the first   *)
(* EndLoop after the enclosing Loop.  So a Loop in the body of another     *)
(* Loop always fails with UnterminatedLoop when it is dispatched, whatever *)
(* EndLoops close the program.                                             *)
(***************************************************************************)
\* entry i is a Loop dispatched by the body of the loop at entry o
EnclosedBy(i, o) ==
    /\ o < i
    /\ LoopRan(o)
    /\ log[o].depth + 1 = log[i].depth
    /\ log[o].pos < log[i].pos
    /\ \A m \in (o + 1)..(i - 1) : log[m].depth >= log[i].depth

C18_LoopWithoutEndLoopInSlice ==
    /\ result = Err(UnterminatedLoop) =>
          /\ log # <<>>
          /\ LET i == Len(log)
                 after == {q \in (log[i].pos + 1)..Len(bytecodes) :
                              bytecodes[q] = EndLoop}
             IN  /\ Dispatched(i) = Loop
                 /\ log[i].depth = 1 => after = {}
                 /\ log[i].depth > 1 =>
                       \E o \in 1..(i - 1) :
                          /\ EnclosedBy(i, o)
                          /\ \A q \in (log[i].pos + 1)..
                                        (FirstEndLoopAfter(log[o]) - 1) :
                                bytecodes[q] # EndLoop
    /\ \A i \in 1..Len(log) :
          (Dispatched(i) = Loop /\ log[i].depth > 1) =>
              (i = Len(log) /\ result = Err(UnterminatedLoop))

\* a program in which every Loop has an EndLoop after it has failed with
\* UnterminatedLoop, at a Loop in the body of another
C18_Witness ==
    /\ result = Err(UnterminatedLoop)
    /\ log[Len(log)].depth = 2
    /\ \A i \in 1..Len(bytecodes) :
          bytecodes[i] = Loop =>
             \E j \in (i + 1)..Len(bytecodes) : bytecodes[j] = EndLoop

(***************************************************************************)
(* C19.  What a ByteCode that succeeds changes.  LoadVal and ReadVar put   *)
(* one value on the stack; WriteVar and a binary operator leave it one     *)
(* shorter; Loop removes the count; EndLoop changes nothing; the values    *)
(* under the operands stay.  Only WriteVar changes the variables, and only *)
(* its own name.                                                           *)
(***************************************************************************)
\* the first n values of stack s
Under(s, n) == SubSeq(s, 1, n)

C19_Step ==
    (Fetching /\ result'.kind = "Running") =>
        LET bc == Current
            n == Len(number_stack)
        IN  /\ bc.op # "WriteVar" => variables_map' = variables_map
            /\ bc.op = "WriteVar" =>
                  /\ DOMAIN variables_map' =
                        DOMAIN variables_map \cup {bc.variable}
                  /\ \A name \in DOMAIN variables_map \ {bc.variable} :
                        variables_map'[name] = variables_map[name]
                  /\ n >= 1
                  /\ number_stack' = Under(number_stack, n - 1)
            /\ bc.op \in {"LoadVal", "ReadVar"} =>
                  /\ Len(number_stack') = n + 1
                  /\ Under(number_stack', n) = number_stack
            /\ bc \in BinaryOps =>
                  /\ n >= 2
                  /\ Len(number_stack') = n - 1
                  /\ Under(number_stack', n - 2) = Under(number_stack, n - 2)
            /\ bc = Loop =>
                  /\ n >= 1
                  /\ number_stack' = Under(number_stack, n - 1)
            /\ bc = EndLoop => number_stack' = number_stack

C19_FrameEffects == [][C19_Step]_vars

\* each kind of ByteCode has succeeded in one call, which returned
C19_Witness ==
    /\ result.kind = "Ok"
    /\ \A op \in {"LoadVal", "WriteVar", "ReadVar", "Loop", "EndLoop"} :
          \E i \in 1..Len(log) : Dispatched(i).op = op
    /\ \E i \in 1..Len(log) : Dispatched(i) \in BinaryOps

====
